---- MODULE Spec2Model ----
(***************************************************************************)
(* A model of mve.py: a variational quantum eigensolver for H2.  The       *)
(* script loads a Hamiltonian and a Hartree-Fock reference state, defines  *)
(* a two-gate circuit (BasisState, DoubleExcitation) whose result is the   *)
(* expectation value of the Hamiltonian, and runs a gradient-descent loop  *)
(* on one rotation angle.                                                  *)
(*                                                                         *)
(* Numbers.  An array is a record [shape, dtype, data]: a scalar has shape *)
(* << >> and one datum.  Angles are integers counting quarter turns of the *)
(* gate's half angle: one tick of theta is pi/2.  Amplitudes are fixed     *)
(* point, scaled by AmpScale; energies are scaled by AmpScale^2.           *)
(***************************************************************************)
EXTENDS Integers, Sequences, FiniteSets, TLC

VARIABLES
    H,          \* the Hamiltonian: [wires, terms], a weighted sum of Pauli strings
    qubits,     \* len(H.wires)
    hf,         \* h2.hf_state, an array of qubits bits
    dstate,     \* what the library returns as d circuit_2 / d state (fixed per build)
    theta,      \* the variational parameter
    angle,      \* the list [theta] built before the loop
    opt_state,  \* the optimizer's state
    gradient,   \* << [wrt, val] >>: the last gradient computed; << >> before the first
    updates,    \* << the array opt.update returned >>; << >> before the first
    n,          \* iterations of the for loop begun so far
    nupdates,   \* assignments to theta made by the loop
    psi,        \* the register(s) the last circuit evaluation prepared
    energy,     \* << the array the last circuit evaluation returned >>
    pc          \* the statement to run next

vars == <<H, qubits, hf, dstate, theta, angle, opt_state, gradient, updates,
          n, nupdates, psi, energy, pc>>

problem == <<H, qubits, hf, dstate>>

(***************************************************************************)
(* Bounds of the model.                                                    *)
(***************************************************************************)
\* entries of d circuit_2 / d state are drawn from -MaxGrad .. MaxGrad steps
MaxGrad == 1
\* the evaluator is checked on angles 0 .. MaxAngle ticks (8 ticks = 4 pi)
MaxAngle == 8

(***************************************************************************)
(* Program constants.                                                      *)
(***************************************************************************)
max_iterations == 100
\* learning_rate = 0.4 = LrNum / LrDen
LrNum == 4
LrDen == 10
\* jax.grad(fun) differentiates positional argument argnums = 0
GradArgnums == 0
\* the positional parameters of circuit_2
circuit_2_params == <<"state", "param">>
\* wires=[0, 1, 2, 3] of the DoubleExcitation gate
GateWires == <<0, 1, 2, 3>>

(***************************************************************************)
(* Arrays.                                                                 *)
(***************************************************************************)
Scalar(x) == [shape |-> << >>, dtype |-> "float", data |-> <<x>>]

Vector(xs, dt) == [shape |-> <<Len(xs)>>, dtype |-> dt, data |-> xs]

IsScalar(a) == a.shape = << >>

\* numpy broadcasting of a scalar against a vector: element i of a seen with shape s
At(a, i) == IF IsScalar(a) THEN a.data[1] ELSE a.data[i]

BroadcastShape(a, b) == IF IsScalar(a) THEN b.shape ELSE a.shape

(***************************************************************************)
(* Trigonometry of the half angle.  CosTable[j + 1] = AmpScale * cos(j *   *)
(* pi / 4), rounded; theta = t ticks has half angle t * pi / 4.            *)
(***************************************************************************)
CosTable == <<1000, 707, 0, -707, -1000, -707, 0, 707>>

AmpScale == CosTable[1]

CosHalf(t) == CosTable[(t % Len(CosTable)) + 1]

\* sin(x) = cos(x - pi/2) = cos(x + 3 pi/2)
SinHalf(t) == CosTable[((t + 3 * (Len(CosTable) \div 4)) % Len(CosTable)) + 1]

\* theta = pi, in ticks
PiTicks == Len(CosTable) \div 4

(***************************************************************************)
(* The simulated register: an amplitude for every bit string.              *)
(***************************************************************************)
BitStrings(k) == [1..k -> {0, 1}]

\* BasisState with the wires read in the opposite order
BasisStateReversed(state, k) ==
    [b \in BitStrings(k) |->
        IF \A i \in 1..k : b[i] = state.data[k + 1 - i] THEN AmpScale ELSE 0]

\* qml.BasisState(state, wires=range(qubits)): wire i holds state[i]
BasisState(state, k) ==
    [b \in BitStrings(k) |-> IF b = state.data THEN AmpScale ELSE 0]

\* DoubleExcitation rotating by theta/4 instead of theta/2
DoubleExcitationQuarter(t, reg) ==
    LET lo == <<0, 0, 1, 1>>
        hi == <<1, 1, 0, 0>>
        c  == CosHalf(t \div 2)
        s  == SinHalf(t \div 2)
    IN  [b \in DOMAIN reg |->
            IF b = lo THEN (c * reg[lo] - s * reg[hi]) \div AmpScale
            ELSE IF b = hi THEN (s * reg[lo] + c * reg[hi]) \div AmpScale
            ELSE reg[b]]

\* qml.DoubleExcitation(param, wires=[0,1,2,3]):
\*   U|0011> = cos(t/2)|0011> + sin(t/2)|1100>
\*   U|1100> = cos(t/2)|1100> - sin(t/2)|0011>, identity elsewhere
DoubleExcitation(t, reg) ==
    LET lo == [i \in 1..Len(GateWires) |->
                  IF i - 1 \in {GateWires[3], GateWires[4]} THEN 1 ELSE 0]
        hi == [i \in 1..Len(GateWires) |-> 1 - lo[i]]
    IN  [b \in DOMAIN reg |->
            IF b = lo THEN (CosHalf(t) * reg[lo] - SinHalf(t) * reg[hi]) \div AmpScale
            ELSE IF b = hi THEN (SinHalf(t) * reg[lo] + CosHalf(t) * reg[hi]) \div AmpScale
            ELSE reg[b]]

(***************************************************************************)
(* Pauli strings.  A term is [coef, ops] with ops a string over I, X, Y, Z *)
(* per wire.  P|b> = phase * |to>, where X and Y flip the bit, Z and Y     *)
(* contribute (-1)^bit and every Y a factor i; the Hamiltonians here have  *)
(* an even number of Y per term, so the phase is real.                     *)
(***************************************************************************)
PauliTo(ops, b) ==
    [i \in DOMAIN b |-> IF ops[i] \in {"X", "Y"} THEN 1 - b[i] ELSE b[i]]

PauliPhase(ops, b) ==
    LET nY    == Cardinality({i \in DOMAIN b : ops[i] = "Y"})
        minus == Cardinality({i \in DOMAIN b : ops[i] \in {"Y", "Z"} /\ b[i] = 1})
    IN  (IF (nY \div 2) % 2 = 0 THEN 1 ELSE -1) * (IF minus % 2 = 0 THEN 1 ELSE -1)

RECURSIVE SumSet(_, _)
SumSet(S, f) ==
    IF S = {} THEN 0
    ELSE LET x == CHOOSE y \in S : TRUE IN f[x] + SumSet(S \ {x}, f)

\* <reg| P |reg> for one Pauli string, scaled by AmpScale^2
PauliExpval(ops, reg) ==
    SumSet(DOMAIN reg,
           [b \in DOMAIN reg |-> reg[b] * PauliPhase(ops, b) * reg[PauliTo(ops, b)]])

\* qml.expval(H): the sum of coef * <P> over the terms of H
expval(Hm, reg) ==
    SumSet(DOMAIN Hm.terms,
           [j \in DOMAIN Hm.terms |-> Hm.terms[j].coef * PauliExpval(Hm.terms[j].ops, reg)])

(***************************************************************************)
(* The Hamiltonians the loader may return: four-qubit sums of Pauli        *)
(* strings with integer weights.  H2Like has the term structure of H2 in   *)
(* the STO-3G basis (one-body Z terms, a ZZ term, the four double          *)
(* excitation strings); Diagonal has no excitation strings; Flat is a      *)
(* multiple of the identity.                                               *)
(***************************************************************************)
Term(c, ops) == [coef |-> c, ops |-> ops]

H2Like ==
    [wires |-> <<0, 1, 2, 3>>,
     terms |-> << Term(-1, <<"I", "I", "I", "I">>),
                  Term(2, <<"Z", "I", "I", "I">>), Term(2, <<"I", "Z", "I", "I">>),
                  Term(-2, <<"I", "I", "Z", "I">>), Term(-2, <<"I", "I", "I", "Z">>),
                  Term(1, <<"Z", "Z", "I", "I">>),
                  Term(1, <<"Y", "X", "X", "Y">>), Term(-1, <<"Y", "Y", "X", "X">>),
                  Term(-1, <<"X", "X", "Y", "Y">>), Term(1, <<"X", "Y", "Y", "X">>) >>]

Diagonal ==
    [wires |-> <<0, 1, 2, 3>>,
     terms |-> << Term(3, <<"Z", "I", "I", "I">>), Term(1, <<"I", "I", "Z", "Z">>),
                  Term(-2, <<"I", "Z", "I", "Z">>) >>]

Flat ==
    [wires |-> <<0, 1, 2, 3>>,
     terms |-> << Term(-5, <<"I", "I", "I", "I">>) >>]

Hamiltonians == {H2Like, Diagonal, Flat}

(***************************************************************************)
(* circuit_2(state, param): BasisState, DoubleExcitation, expval(H).  A    *)
(* parameter with a leading dimension is broadcast: the circuit runs once  *)
(* per entry and the results are stacked.  Returns the registers prepared  *)
(* and the array of expectation values.                                    *)
(***************************************************************************)
Prepare(k, state, t) == DoubleExcitation(t, BasisState(state, k))

circuit_2(Hm, k, state, param) ==
    LET regs == [i \in DOMAIN param.data |-> Prepare(k, state, param.data[i])]
        outs == [i \in DOMAIN param.data |-> expval(Hm, regs[i])]
    IN  [psi |-> regs,
         out |-> [shape |-> param.shape, dtype |-> "float", data |-> outs]]

(***************************************************************************)
(* optax.sgd(learning_rate=0.4): no momentum, so the optimizer state is    *)
(* empty and update scales the gradient by -learning_rate.                 *)
(***************************************************************************)
EmptyState == << >>

\* opt.init(theta)
sgd_init(params) == EmptyState

\* update with the sign of the step reversed (ascent)
sgd_update_ascent(g, st) ==
    [updates |-> [shape |-> g.shape, dtype |-> g.dtype,
                  data  |-> [i \in DOMAIN g.data |-> (LrNum * g.data[i]) \div LrDen]],
     state   |-> st]

\* opt.update(gradient, opt_state): (updates, new opt_state)
sgd_update(g, st) ==
    [updates |-> [shape |-> g.shape, dtype |-> g.dtype,
                  data  |-> [i \in DOMAIN g.data |-> (0 - LrNum * g.data[i]) \div LrDen]],
     state   |-> st]

\* optax.apply_updates(params, updates): params + updates, broadcast, as params.dtype
apply_updates(p, u) ==
    LET shape == BroadcastShape(p, u)
        len   == IF shape = << >> THEN 1 ELSE shape[1]
    IN  [shape |-> shape, dtype |-> p.dtype,
         data  |-> [i \in 1..len |-> At(p, i) + At(u, i)]]

(***************************************************************************)
(* The state after lines 9-34.  The dataset decides the Hamiltonian and    *)
(* the reference state (its bits and its dtype).  The derivative of the    *)
(* circuit with respect to its basis-state argument is whatever the        *)
(* differentiation backend returns for a state-preparation argument: it is *)
(* fixed for a build and drawn here from multiples of 5, which keep the    *)
(* fixed-point product with the learning rate exact.                       *)
(***************************************************************************)
GradValues == {5 * g : g \in (0 - MaxGrad)..MaxGrad}

\* a Hartree-Fock occupation fills the lowest e of k spin orbitals
HartreeFock(k) == {[i \in 1..k |-> IF i <= e THEN 1 ELSE 0] : e \in 0..k}

ReferenceStates(k) ==
    {Vector(b, dt) : b \in HartreeFock(k), dt \in {"int", "float"}}

Loaded ==
    /\ H \in Hamiltonians
    /\ qubits = Len(H.wires)
    /\ hf \in ReferenceStates(qubits)
    /\ dstate \in [1..qubits -> GradValues]

Init ==
    /\ Loaded
    /\ theta = Scalar(0)
    /\ angle = <<theta>>
    /\ opt_state = sgd_init(theta)
    /\ gradient = << >>
    /\ updates = << >>
    /\ n = 0
    /\ nupdates = 0
    /\ psi = << >>
    /\ energy = << >>
    /\ pc = "for"

(***************************************************************************)
(* Line 36: for n in range(max_iterations).                                *)
(***************************************************************************)
For ==
    /\ pc = "for"
    /\ IF n < max_iterations
       THEN n' = n + 1 /\ pc' = "grad"
       ELSE n' = n /\ pc' = "done"
    /\ UNCHANGED <<problem, theta, angle, opt_state, gradient, updates, nupdates,
                   psi, energy>>

(***************************************************************************)
(* Line 38: gradient = jax.grad(circuit_2)(h2.hf_state, theta).            *)
(* jax.grad differentiates the argument at position argnums.  It raises    *)
(* TypeError when that argument is not of a floating dtype; it then runs   *)
(* the function and raises TypeError when the output is not a scalar; the  *)
(* gradient has the shape of the differentiated argument.                  *)
(***************************************************************************)
Grad ==
    /\ pc = "grad"
    /\ LET args == <<hf, theta>>
           x    == args[GradArgnums + 1]
           res  == circuit_2(H, qubits, args[1], args[2])
       IN  IF x.dtype # "float"
           THEN /\ pc' = "raised"
                /\ UNCHANGED <<gradient, psi, energy>>
           ELSE /\ psi' = res.psi
                /\ energy' = <<res.out>>
                /\ IF IsScalar(res.out)
                   THEN /\ gradient' = << [wrt |-> circuit_2_params[GradArgnums + 1],
                                           val |-> [shape |-> x.shape, dtype |-> "float",
                                                    data  |-> dstate]] >>
                        /\ pc' = "update"
                   ELSE /\ pc' = "raised"
                        /\ UNCHANGED gradient
    /\ UNCHANGED <<problem, theta, angle, opt_state, updates, n, nupdates>>

\* line 39 also adding the updates to theta, so that line 40 adds them again
UpdateInPlace ==
    /\ pc = "update"
    /\ LET r == sgd_update(gradient[1].val, opt_state)
       IN  /\ updates' = <<r.updates>>
           /\ opt_state' = r.state
           /\ theta' = apply_updates(theta, r.updates)
    /\ pc' = "apply"
    /\ UNCHANGED <<problem, angle, gradient, n, nupdates, psi, energy>>

(***************************************************************************)
(* Line 39: updates, opt_state = opt.update(gradient, opt_state).          *)
(***************************************************************************)
Update ==
    /\ pc = "update"
    /\ LET r == sgd_update(gradient[1].val, opt_state)
       IN  /\ updates' = <<r.updates>>
           /\ opt_state' = r.state
    /\ pc' = "apply"
    /\ UNCHANGED <<problem, theta, angle, gradient, n, nupdates, psi, energy>>

\* line 40 applying the updates to the reference state as well
ApplyToReference ==
    /\ pc = "apply"
    /\ theta' = apply_updates(theta, updates[1])
    /\ hf' = apply_updates(hf, updates[1])
    /\ nupdates' = nupdates + 1
    /\ pc' = "for"
    /\ UNCHANGED <<H, qubits, dstate, angle, opt_state, gradient, updates, n, psi, energy>>

(***************************************************************************)
(* Line 40: theta = optax.apply_updates(theta, updates).                   *)
(***************************************************************************)
Apply ==
    /\ pc = "apply"
    /\ theta' = apply_updates(theta, updates[1])
    /\ nupdates' = nupdates + 1
    /\ pc' = "for"
    /\ UNCHANGED <<problem, angle, opt_state, gradient, updates, n, psi, energy>>

Next == For \/ Grad \/ Update \/ Apply

Spec == Init /\ [][Next]_vars

(***************************************************************************)
(* The circuit evaluator on its own: one call circuit_2(state, param) on   *)
(* any basis state and any angle of 0 .. MaxAngle ticks.                   *)
(***************************************************************************)
InitEval ==
    /\ H \in Hamiltonians
    /\ qubits = Len(H.wires)
    /\ hf \in {Vector(b, "int") : b \in BitStrings(qubits)}
    /\ dstate = [i \in 1..qubits |-> 0]
    /\ theta \in {Scalar(t) : t \in 0..MaxAngle}
    /\ angle = <<theta>>
    /\ opt_state = sgd_init(theta)
    /\ gradient = << >>
    /\ updates = << >>
    /\ n = 0
    /\ nupdates = 0
    /\ psi = << >>
    /\ energy = << >>
    /\ pc = "circuit_2"

Evaluate ==
    /\ pc = "circuit_2"
    /\ LET res == circuit_2(H, qubits, hf, theta)
       IN  /\ psi' = res.psi
           /\ energy' = <<res.out>>
    /\ pc' = "returned"
    /\ UNCHANGED <<problem, theta, angle, opt_state, gradient, updates, n, nupdates>>

NextEval == Evaluate

SpecEval == InitEval /\ [][NextEval]_vars

(***************************************************************************)
(* Properties of the optimization loop (Spec).                             *)
(***************************************************************************)
Ended == pc \in {"done", "raised"}

\* C1: every gradient the loop computes is the derivative of circuit_2 with
\* respect to its parameter theta, never with respect to the reference state.
GradientIsWithRespectToTheta ==
    gradient # << >> => /\ gradient[1].wrt = "param"
                        /\ gradient[1].val.shape = << >>

\* C2: when the run ends, the loop body has run max_iterations times and theta
\* has been updated max_iterations times.
LoopRunsMaxIterations ==
    Ended => n = max_iterations /\ nupdates = max_iterations

\* C3: the assignment of line 40 sets theta to theta - learning_rate * gradient
\* (entry by entry, learning_rate = LrNum / LrDen), where gradient is the one
\* computed in this iteration, and the optimizer carries no accumulated term.
UpdateRule ==
    [][pc = "apply" =>
          /\ opt_state = EmptyState
          /\ \A i \in DOMAIN theta'.data :
                LrDen * (theta'.data[i] - At(theta, i)) = 0 - LrNum * At(gradient[1].val, i)]_vars

UpdateRuleWitness ==
    /\ pc = "for"
    /\ nupdates = 1
    /\ \E i \in DOMAIN theta.data : theta.data[i] < 0
    /\ \E i \in DOMAIN gradient[1].val.data : gradient[1].val.data[i] > 0

\* C4: no step of the run changes the qubit count, the Hamiltonian or the
\* Hartree-Fock reference state.
ProblemIsFrozen ==
    [][H' = H /\ qubits' = qubits /\ hf' = hf]_vars

ProblemIsFrozenWitness ==
    /\ nupdates = 1
    /\ energy # << >>
    /\ theta # Scalar(0)

ThetaChangesOnlyInApply ==
    [][/\ theta' # theta => pc = "apply" /\ pc' = "for" /\ nupdates' = nupdates + 1
       /\ pc \in {"for", "grad", "update"} => theta' = theta
       /\ pc' = "for" => nupdates' = n']_vars

ThetaChangesOnlyInApplyWitness ==
    /\ pc = "for"
    /\ nupdates = 1
    /\ n = 1
    /\ theta # Scalar(0)
    /\ energy # << >>

(***************************************************************************)
(* Properties of the circuit evaluator (SpecEval).                         *)
(***************************************************************************)
\* the register holding exactly the basis state of the reference bits
ReferenceRegister == [b \in BitStrings(qubits) |-> IF b = hf.data THEN AmpScale ELSE 0]

\* reg is the reference register up to a sign
ReferenceUpToSign(reg) ==
    \/ reg = ReferenceRegister
    \/ reg = [b \in BitStrings(qubits) |-> 0 - ReferenceRegister[b]]

\* C9: for theta = 0 the prepared state is exactly the reference state and the
\* energy returned is the Hamiltonian's expectation value in that state.
ZeroAngleKeepsReference ==
    (pc = "returned" /\ theta = Scalar(0)) =>
        /\ psi = <<ReferenceRegister>>
        /\ energy = <<Scalar(expval(H, ReferenceRegister))>>

ZeroAngleKeepsReferenceWitness ==
    /\ pc = "returned"
    /\ theta = Scalar(0)
    /\ hf.data = <<1, 1, 0, 0>>
    /\ H = H2Like
    /\ psi[1][<<1, 1, 0, 0>>] = AmpScale

\* C10 as stated: for theta = pi the prepared state is the reference state up
\* to a sign and the energy equals the energy at theta = 0.
PiReturnsReference ==
    (pc = "returned" /\ theta = Scalar(PiTicks)) =>
        /\ ReferenceUpToSign(psi[1])
        /\ energy = <<circuit_2(H, qubits, hf, Scalar(0)).out>>

\* C10 amended: for theta = 2 pi the prepared state is the reference state up
\* to a sign and the energy equals the energy at theta = 0.
TwoPiReturnsReference ==
    (pc = "returned" /\ theta = Scalar(2 * PiTicks)) =>
        /\ ReferenceUpToSign(psi[1])
        /\ energy = <<circuit_2(H, qubits, hf, Scalar(0)).out>>

TwoPiReturnsReferenceWitness ==
    /\ pc = "returned"
    /\ theta = Scalar(2 * PiTicks)
    /\ hf.data = <<1, 1, 0, 0>>
    /\ H = H2Like
    /\ psi[1][<<1, 1, 0, 0>>] = 0 - AmpScale

====
